---- MODULE Spec2Model ----
(***************************************************************************)
(* Model of lib/oath.js: a minimal promise (Promise), its producer handle  *)
(* (Deferred), the constructors defer / resolved / rejected and the        *)
(* node-style adapter promisify / failable.                                *)
(*                                                                         *)
(* JavaScript objects live in a heap: `heap` is a sequence of Promise      *)
(* records and a promise is named by its index.  A Deferred holds nothing  *)
(* but its promise, so it is named by the same index.  Every public call   *)
(* is one atomic action; the calls it makes (fulfill, abandon, nested      *)
(* then/catch, continuations) are evaluated inside it, with a thrown Error *)
(* unwinding the call stack and keeping the writes made before the throw.  *)
(***************************************************************************)
EXTENDS Integers, Sequences, FiniteSets, TLC

\* Bounds of the model.
MaxProm == 4
MaxRoots == 2

\* ---------------------------------------------------------------- values
\* JavaScript values that flow through promises.
Undef == [k |-> "undef", v |-> 0]
NullV == [k |-> "null", v |-> 0]
NaNV == [k |-> "nan", v |-> 0]
Num(n) == [k |-> "num", v |-> n]
PromV(p) == [k |-> "prom", v |-> p]
StrV == [k |-> "str", v |-> 0]

\* The module's own functions resolved (1) and rejected (2) as values.  The
\* declarations `var resolved = function ...` and `var rejected = function
\* ...` assign the variables that hold the status tags, so once the module
\* is loaded these two functions are the Resolved and the Rejected tag.
TagV(n) == [k |-> "tag", v |-> n]
Tags == {TagV(1), TagV(2)}

\* The payload a producer hands to promise p (through resolve, reject,
\* resolved, rejected or a callback).  The code looks at a payload only in
\* `if (err)` and in `this.value && this.value.then`, so one truthy
\* number per promise stands for all plain payloads; payloads of different
\* promises differ, and n + 1 of one is never the payload of another.
Payloads(p) == {Num(10 * p)}

\* The truthiness of a value, as in `if (err)`.
Truthy(x) == \/ x.k \in {"prom", "tag", "str"}
             \/ x.k = "num" /\ x.v # 0

\* `this.value && this.value.then`: only promises carry a then method.
IsThenable(x) == Truthy(x) /\ x.k = "prom"

\* ------------------------------------------------------------- functions
\* Functions stored as continuations.  NoFn is the absent (undefined) one.
\*   inc   n => n + 1
\*   ret   () => q, q the promise t
\*   h     a failure handler
\*   res   the bound resolve of the Deferred of promise t
\*   rej   the bound reject  of the Deferred of promise t
NoFn == [k |-> "none", t |-> 0]
IncFn == [k |-> "inc", t |-> 0]
RetFn(q) == [k |-> "ret", t |-> q]
HFn == [k |-> "h", t |-> 0]
ResolveOf(p) == [k |-> "res", t |-> p]
RejectOf(p) == [k |-> "rej", t |-> p]

\* ---------------------------------------------------------------- errors
NoErr == "none"
ThenTwice == "Tried to then a promise twice."
CatchTwice == "Tried to catch a promise twice."
FulfillTwice == "Tried to fulfill a promise twice."
AbandonTwice == "Tried to abandon a promise twice."

\* ------------------------------------------------------------ the heap
\* new Promise(value, status): status || waiting; owed, onFail and next
\* are absent until then / catch set them.
Promise(value, status) ==
  [value |-> value, status |-> status,
   owed |-> NoFn, onFail |-> NoFn, next |-> 0]

\* A machine state threaded through the calls of one public operation:
\* the heap, the log of user continuations invoked, the Error thrown (if
\* any) and the value returned by the last function called.
Machine(h, l) == [h |-> h, log |-> l, err |-> NoErr, ret |-> Undef]

Throw(st, msg) == [st EXCEPT !.err = msg]

\* defer(): new Deferred(new Promise()); the new promise is the last cell.
defer(st) == [st EXCEPT !.h = Append(@, Promise(Undef, "waiting"))]

RECURSIVE then(_, _, _, _), catch(_, _, _), fulfill(_, _, _, _)
RECURSIVE abandon(_, _, _, _), call(_, _, _, _, _)
RECURSIVE resolve(_, _, _), reject(_, _, _)

\* ---------------------------------------------------------------- mutants
\* Plausible slips of the code below, each used to see that a property
\* checked further down depends on the code it is about.

\* abandon that forwards the stale this.value, not the error, to next.
abandon_ForwardsValue(st, p, error, force) ==
  IF st.h[p].status # "waiting" /\ ~force THEN Throw(st, AbandonTwice)
  ELSE
    LET s1 == [st EXCEPT !.h[p].status = "rejected"] IN
    IF s1.h[p].onFail # NoFn
      THEN call([s1 EXCEPT !.h[p].value = error], p, "onFail", s1.h[p].onFail, error)
    ELSE IF s1.h[p].next # 0
      THEN reject(s1, s1.h[p].next, s1.h[p].value)
    ELSE s1

\* then that refuses a second registration only while Waiting.
then_GuardsOnlyWaiting(st, p, success, failure) ==
  IF st.h[p].owed # NoFn /\ st.h[p].status = "waiting" THEN Throw(st, ThenTwice)
  ELSE
    LET s1 == [st EXCEPT !.h[p].owed = success]
        s2 == [defer(s1) EXCEPT !.h[p].next = Len(s1.h) + 1]
        s3 == IF s2.h[p].status = "resolved"
                THEN fulfill(s2, p, s2.h[p].value, TRUE)
                ELSE s2
    IN IF s3.err # NoErr THEN s3
       ELSE LET s4 == IF failure # NoFn THEN catch(s3, p, failure) ELSE s3
            IN IF s4.err # NoErr THEN s4
               ELSE [s4 EXCEPT !.ret = PromV(s4.h[p].next)]

\* catch that refuses a second registration only once Rejected.
catch_GuardsOnlyRejected(st, p, failure) ==
  IF st.h[p].onFail # NoFn /\ st.h[p].status = "rejected" THEN Throw(st, CatchTwice)
  ELSE
    LET s1 == [st EXCEPT !.h[p].onFail = failure] IN
    IF s1.h[p].status = "rejected"
      THEN [abandon(s1, p, s1.h[p].value, TRUE) EXCEPT !.ret = Undef]
      ELSE [s1 EXCEPT !.ret = Undef]

\* catch that only stores the handler, also on a Rejected promise.
catch_NoLateInvoke(st, p, failure) ==
  IF st.h[p].onFail # NoFn THEN Throw(st, CatchTwice)
  ELSE [st EXCEPT !.h[p].onFail = failure, !.ret = Undef]

\* fulfill that refuses only a promise that is already Resolved.
fulfill_GuardsOnlyResolved(st, p, data, force) ==
  IF st.h[p].status = "resolved" /\ ~force THEN Throw(st, FulfillTwice)
  ELSE
    LET s1 == [st EXCEPT !.h[p].status = "resolved"] IN
    IF s1.h[p].owed = NoFn THEN s1
    ELSE
      LET s2 == call(s1, p, "owed", s1.h[p].owed, data) IN
      IF s2.err # NoErr THEN s2
      ELSE
        LET s3 == [s2 EXCEPT !.h[p].value = s2.ret] IN
        IF ~IsThenable(s3.h[p].value) THEN s3
        ELSE
          LET s4 == then(s3, s3.h[p].value.v, ResolveOf(s3.h[p].next), NoFn) IN
          IF s4.err # NoErr THEN s4
          ELSE catch(s4, s4.h[p].value.v, RejectOf(s4.h[p].next))

\* abandon that raises when nobody listens for the failure.
abandon_ThrowsUnhandled(st, p, error, force) ==
  IF st.h[p].status # "waiting" /\ ~force THEN Throw(st, AbandonTwice)
  ELSE
    LET s1 == [st EXCEPT !.h[p].status = "rejected"] IN
    IF s1.h[p].onFail # NoFn
      THEN call([s1 EXCEPT !.h[p].value = error], p, "onFail", s1.h[p].onFail, error)
    ELSE IF s1.h[p].next # 0
      THEN reject(s1, s1.h[p].next, error)
    ELSE Throw(s1, "Unhandled rejection.")

\* then that re-enters fulfill on every settled promise, Rejected included.
then_ForcesOnSettled(st, p, success, failure) ==
  IF st.h[p].owed # NoFn THEN Throw(st, ThenTwice)
  ELSE
    LET s1 == [st EXCEPT !.h[p].owed = success]
        s2 == [defer(s1) EXCEPT !.h[p].next = Len(s1.h) + 1]
        s3 == IF s2.h[p].status # "waiting"
                THEN fulfill(s2, p, s2.h[p].value, TRUE)
                ELSE s2
    IN IF s3.err # NoErr THEN s3
       ELSE LET s4 == IF failure # NoFn THEN catch(s3, p, failure) ELSE s3
            IN IF s4.err # NoErr THEN s4
               ELSE [s4 EXCEPT !.ret = PromV(s4.h[p].next)]

\* then that only stores the continuation, also on a Resolved promise.
then_NoLateInvoke(st, p, success, failure) ==
  IF st.h[p].owed # NoFn THEN Throw(st, ThenTwice)
  ELSE
    LET s1 == [st EXCEPT !.h[p].owed = success]
        s2 == [defer(s1) EXCEPT !.h[p].next = Len(s1.h) + 1]
        s4 == IF failure # NoFn THEN catch(s2, p, failure) ELSE s2
    IN IF s4.err # NoErr THEN s4
       ELSE [s4 EXCEPT !.ret = PromV(s4.h[p].next)]

\* catch that also takes a promise for Rejected when its value is the
\* Rejected tag.
catch_ComparesValue(st, p, failure) ==
  IF st.h[p].onFail # NoFn THEN Throw(st, CatchTwice)
  ELSE
    LET s1 == [st EXCEPT !.h[p].onFail = failure] IN
    IF s1.h[p].status = "rejected" \/ s1.h[p].value = TagV(2)
      THEN [abandon(s1, p, s1.h[p].value, TRUE) EXCEPT !.ret = Undef]
      ELSE [s1 EXCEPT !.ret = Undef]

\* abandon that, after the failure continuation has run, also forwards the
\* error to next.
abandon_AlsoForwards(st, p, error, force) ==
  IF st.h[p].status # "waiting" /\ ~force THEN Throw(st, AbandonTwice)
  ELSE
    LET s1 == [st EXCEPT !.h[p].status = "rejected"]
        s2 == IF s1.h[p].onFail # NoFn
                THEN call([s1 EXCEPT !.h[p].value = error], p, "onFail", s1.h[p].onFail, error)
                ELSE s1
    IN IF s2.err # NoErr THEN s2
       ELSE IF s2.h[p].next # 0 THEN reject(s2, s2.h[p].next, error)
       ELSE s2

\* fulfill that hands the data to next before it runs its own continuation.
fulfill_NextFirst(st, p, data, force) ==
  IF st.h[p].status # "waiting" /\ ~force THEN Throw(st, FulfillTwice)
  ELSE
    LET s1 == [st EXCEPT !.h[p].status = "resolved"] IN
    IF s1.h[p].owed = NoFn THEN s1
    ELSE
      LET s2 == fulfill(s1, s1.h[p].next, data, TRUE) IN
      IF s2.err # NoErr THEN s2
      ELSE
        LET s3 == call(s2, p, "owed", s2.h[p].owed, data) IN
        IF s3.err # NoErr THEN s3
        ELSE [s3 EXCEPT !.h[p].value = s3.ret]

\* fulfill that keeps the data as the promise's value when no success
\* continuation is registered.
fulfill_StoresData(st, p, data, force) ==
  IF st.h[p].status # "waiting" /\ ~force THEN Throw(st, FulfillTwice)
  ELSE
    LET s1 == [st EXCEPT !.h[p].status = "resolved"] IN
    IF s1.h[p].owed = NoFn THEN [s1 EXCEPT !.h[p].value = data]
    ELSE
      LET s2 == call(s1, p, "owed", s1.h[p].owed, data) IN
      IF s2.err # NoErr THEN s2
      ELSE
        LET s3 == [s2 EXCEPT !.h[p].value = s2.ret] IN
        IF ~IsThenable(s3.h[p].value) THEN s3
        ELSE
          LET s4 == then(s3, s3.h[p].value.v, ResolveOf(s3.h[p].next), NoFn) IN
          IF s4.err # NoErr THEN s4
          ELSE catch(s4, s4.h[p].value.v, RejectOf(s4.h[p].next))

\* abandon without the guard against a promise that has left Waiting.
abandon_Unguarded(st, p, error, force) ==
  LET s1 == [st EXCEPT !.h[p].status = "rejected"] IN
  IF s1.h[p].onFail # NoFn
    THEN call([s1 EXCEPT !.h[p].value = error], p, "onFail", s1.h[p].onFail, error)
  ELSE IF s1.h[p].next # 0
    THEN reject(s1, s1.h[p].next, error)
  ELSE s1

\* ------------------------------------------------------------- the code

\* Calling the function fn, registered on promise p as its `kind`
\* continuation ("owed" or "onFail"), with one argument.
call(st, p, kind, fn, arg) ==
  LET logged == [st EXCEPT !.log =
                   Append(@, [p |-> p, kind |-> kind, fn |-> fn, arg |-> arg])]
  IN CASE fn.k = "inc" ->
            [logged EXCEPT !.ret = IF arg.k = "num" THEN Num(arg.v + 1)
                                   ELSE IF arg.k \in {"tag", "prom", "str"} THEN StrV
                                   ELSE IF arg.k = "null" THEN Num(1)
                                   ELSE NaNV]
       [] fn.k = "ret" -> [logged EXCEPT !.ret = PromV(fn.t)]
       [] fn.k = "h" -> [logged EXCEPT !.ret = Undef]
       [] fn.k = "res" -> resolve(st, fn.t, arg)
       [] fn.k = "rej" -> reject(st, fn.t, arg)

\* Promise.prototype.fulfill
fulfill(st, p, data, force) ==
  IF st.h[p].status # "waiting" /\ ~force THEN Throw(st, FulfillTwice)
  ELSE
    LET s1 == [st EXCEPT !.h[p].status = "resolved"] IN
    IF s1.h[p].owed = NoFn THEN s1
    ELSE
      LET s2 == call(s1, p, "owed", s1.h[p].owed, data) IN
      IF s2.err # NoErr THEN s2
      ELSE
        LET s3 == [s2 EXCEPT !.h[p].value = s2.ret] IN
        IF ~IsThenable(s3.h[p].value) THEN s3
        ELSE
          LET s4 == then(s3, s3.h[p].value.v, ResolveOf(s3.h[p].next), NoFn) IN
          IF s4.err # NoErr THEN s4
          ELSE catch(s4, s4.h[p].value.v, RejectOf(s4.h[p].next))

\* Promise.prototype.abandon
abandon(st, p, error, force) ==
  IF st.h[p].status # "waiting" /\ ~force THEN Throw(st, AbandonTwice)
  ELSE
    LET s1 == [st EXCEPT !.h[p].status = "rejected"] IN
    IF s1.h[p].onFail # NoFn
      THEN call([s1 EXCEPT !.h[p].value = error], p, "onFail", s1.h[p].onFail, error)
    ELSE IF s1.h[p].next # 0
      THEN reject(s1, s1.h[p].next, error)
    ELSE s1

\* Promise.prototype.then
then(st, p, success, failure) ==
  IF st.h[p].owed # NoFn THEN Throw(st, ThenTwice)
  ELSE
    LET s1 == [st EXCEPT !.h[p].owed = success]
        s2 == [defer(s1) EXCEPT !.h[p].next = Len(s1.h) + 1]
        s3 == IF s2.h[p].status = "resolved"
                THEN fulfill(s2, p, s2.h[p].value, TRUE)
                ELSE s2
    IN IF s3.err # NoErr THEN s3
       ELSE LET s4 == IF failure # NoFn THEN catch(s3, p, failure) ELSE s3
            IN IF s4.err # NoErr THEN s4
               ELSE [s4 EXCEPT !.ret = PromV(s4.h[p].next)]

\* Promise.prototype.catch
catch(st, p, failure) ==
  IF st.h[p].onFail # NoFn THEN Throw(st, CatchTwice)
  ELSE
    LET s1 == [st EXCEPT !.h[p].onFail = failure] IN
    IF s1.h[p].status = "rejected"
      THEN [abandon(s1, p, s1.h[p].value, TRUE) EXCEPT !.ret = Undef]
      ELSE [s1 EXCEPT !.ret = Undef]

\* Deferred.prototype.resolve / Deferred.prototype.reject
resolve(st, p, data) == [fulfill(st, p, data, FALSE) EXCEPT !.ret = Undef]
reject(st, p, error) == [abandon(st, p, error, FALSE) EXCEPT !.ret = Undef]

\* failable(nodeStyle, error, success), at the moment nodeStyle calls its
\* callback with (err, data): error = deferred.reject, success = deferred.resolve.
failable(st, p, err, data) ==
  IF Truthy(err) THEN reject(st, p, err) ELSE resolve(st, p, data)

\* resolved(value) / rejected(error)
resolved(st, value) == [st EXCEPT !.h = Append(@, Promise(value, "resolved"))]
rejected(st, error) == [st EXCEPT !.h = Append(@, Promise(error, "rejected"))]

\* ------------------------------------------------------------- the state
VARIABLES
  heap,      \* the promises
  log,       \* the user continuations invoked so far, in order
  held,      \* the promises the calling code holds a reference to
  deferreds, \* the promises whose Deferred the calling code holds
  given,     \* the payloads handed over by the producers, per promise
  adapted,   \* the promises returned by promisified functions
  pending    \* those of them whose callback has not fired yet

vars == <<heap, log, held, deferreds, given, adapted, pending>>

Now == Machine(heap, log)

\* The heap and the log become those of machine state r.
Commit(r) ==
  /\ Len(r.h) <= MaxProm
  /\ heap' = r.h
  /\ log' = r.log

Roots == deferreds \cup {g.p : g \in given} \cup adapted

Init ==
  /\ heap = <<>>
  /\ log = <<>>
  /\ held = {}
  /\ deferreds = {}
  /\ given = {}
  /\ adapted = {}
  /\ pending = {}

\* var d = defer()
Defer ==
  /\ Cardinality(Roots) < MaxRoots
  /\ LET r == defer(Now) IN
       /\ Commit(r)
       /\ held' = held \cup {Len(r.h)}
       /\ deferreds' = deferreds \cup {Len(r.h)}
  /\ UNCHANGED <<given, adapted, pending>>

\* var p = resolved(v)
Resolved ==
  /\ Cardinality(Roots) < MaxRoots
  /\ \E v \in Payloads(Len(heap) + 1) :
       LET r == resolved(Now, v) IN
         /\ Commit(r)
         /\ held' = held \cup {Len(r.h)}
         /\ given' = given \cup {[p |-> Len(r.h), ok |-> TRUE, v |-> v, via |-> "factory"]}
  /\ UNCHANGED <<deferreds, adapted, pending>>

\* var p = rejected(e)
Rejected ==
  /\ Cardinality(Roots) < MaxRoots
  /\ \E e \in Payloads(Len(heap) + 1) :
       LET r == rejected(Now, e) IN
         /\ Commit(r)
         /\ held' = held \cup {Len(r.h)}
         /\ given' = given \cup {[p |-> Len(r.h), ok |-> FALSE, v |-> e, via |-> "factory"]}
  /\ UNCHANGED <<deferreds, adapted, pending>>

\* The promise whose then call made promise p (0 when p was not made by
\* a then call), and the first promise of the chain p belongs to.
Parent(p) ==
  IF \E q \in 1..Len(heap) : heap[q].next = p
    THEN CHOOSE q \in 1..Len(heap) : heap[q].next = p
    ELSE 0

RECURSIVE RootOf(_)
RootOf(p) == IF Parent(p) = 0 THEN p ELSE RootOf(Parent(p))

\* The success continuations the calling code passes to p.then: one that
\* returns a plain value, n => n + 1, and those that return a promise the
\* calling code holds from another chain.
SuccessFns(p) ==
  {IncFn} \cup {RetFn(q) : q \in {x \in held : RootOf(x) # RootOf(p)}}

\* p.then(success) and p.then(success, failure)
Then ==
  \E p \in held : \E s \in SuccessFns(p), f \in {NoFn, HFn} :
    LET r == then(Now, p, s, f) IN
      /\ Commit(r)
      /\ held' = IF r.err = NoErr THEN held \cup {r.ret.v} ELSE held
      /\ UNCHANGED <<deferreds, given, adapted, pending>>

\* p.catch(failure)
Catch ==
  \E p \in held :
    LET r == catch(Now, p, HFn) IN
      /\ Commit(r)
      /\ UNCHANGED <<held, deferreds, given, adapted, pending>>

\* d.resolve(data)
Resolve ==
  \E p \in deferreds : \E x \in Payloads(p) :
    LET r == resolve(Now, p, x) IN
      /\ Commit(r)
      /\ given' = IF heap[p].status = "waiting"
                    THEN given \cup {[p |-> p, ok |-> TRUE, v |-> x, via |-> "deferred"]}
                    ELSE given
      /\ UNCHANGED <<held, deferreds, adapted, pending>>

\* d.reject(error)
Reject ==
  \E p \in deferreds : \E x \in Payloads(p) :
    LET r == reject(Now, p, x) IN
      /\ Commit(r)
      /\ given' = IF heap[p].status = "waiting"
                    THEN given \cup {[p |-> p, ok |-> FALSE, v |-> x, via |-> "deferred"]}
                    ELSE given
      /\ UNCHANGED <<held, deferreds, adapted, pending>>

\* The (err, data) pairs a node-style function hands to its callback for
\* promise p: success, failure, and a falsy err that is not null.
Outcomes(p) ==
  UNION {{<<NullV, x>>, <<x, Undef>>, <<Num(0), x>>} : x \in Payloads(p)}

\* What the callback cb(err, data) hands over to the promise p.
Outcome(p, o) ==
  [p |-> p, ok |-> ~Truthy(o[1]), v |-> IF Truthy(o[1]) THEN o[1] ELSE o[2],
   via |-> "callback"]

\* var p = promisify(nodeStyle, context)(args...): the promisified function
\* makes the Deferred and runs nodeStyle, which either calls its callback
\* during the call (sync) or keeps it for later.
Promisify ==
  /\ Cardinality(Roots) < MaxRoots
  /\ \E sync \in BOOLEAN, o \in Outcomes(Len(heap) + 1) :
       LET d == defer(Now)
           p == Len(d.h)
           r == IF sync THEN failable(d, p, o[1], o[2]) ELSE d
       IN /\ sync \/ o[1] = NullV
          /\ Commit(r)
          /\ held' = held \cup {p}
          /\ adapted' = adapted \cup {p}
          /\ pending' = IF sync THEN pending ELSE pending \cup {p}
          /\ given' = IF sync
                        THEN given \cup {Outcome(p, o)}
                        ELSE given
  /\ UNCHANGED deferreds

\* nodeStyle calls the callback it kept: cb(err, data)
Callback ==
  \E p \in pending : \E o \in Outcomes(p) :
    LET r == failable(Now, p, o[1], o[2]) IN
      /\ Commit(r)
      /\ pending' = pending \ {p}
      /\ given' = given \cup {Outcome(p, o)}
      /\ UNCHANGED <<held, deferreds, adapted>>

Next ==
  \/ Defer
  \/ Resolved
  \/ Rejected
  \/ Then
  \/ Catch
  \/ Resolve
  \/ Reject

Spec == Init /\ [][Next]_vars

\* var p = resolved(v) and var p = rejected(v), v any payload: a plain one
\* or one of the module's own functions resolved and rejected.
ResolvedOfAny ==
  /\ Cardinality(Roots) < MaxRoots
  /\ \E v \in Payloads(Len(heap) + 1) \cup Tags :
       LET r == resolved(Now, v) IN
         /\ Commit(r)
         /\ held' = held \cup {Len(r.h)}
         /\ given' = given \cup {[p |-> Len(r.h), ok |-> TRUE, v |-> v, via |-> "factory"]}
  /\ UNCHANGED <<deferreds, adapted, pending>>

RejectedOfAny ==
  /\ Cardinality(Roots) < MaxRoots
  /\ \E e \in Payloads(Len(heap) + 1) \cup Tags :
       LET r == rejected(Now, e) IN
         /\ Commit(r)
         /\ held' = held \cup {Len(r.h)}
         /\ given' = given \cup {[p |-> Len(r.h), ok |-> FALSE, v |-> e, via |-> "factory"]}
  /\ UNCHANGED <<deferreds, adapted, pending>>

\* The calling code of the two factories alone.
NextFactories ==
  \/ ResolvedOfAny
  \/ RejectedOfAny
  \/ Then
  \/ Catch

SpecFactories == Init /\ [][NextFactories]_vars

\* The calling code of the adapter: promisified calls, their callbacks and
\* the registrations on the promises they return.
NextAdapter ==
  \/ Promisify
  \/ Callback
  \/ Then
  \/ Catch

SpecAdapter == Init /\ [][NextAdapter]_vars

\* ------------------------------------------------------------ vocabulary
Promises == 1..Len(heap)

\* What a producer handed to promise p: records [p, ok, v, via], ok for a
\* success and ~ok for a failure.
Given(p) == {g \in given : g.p = p}

\* The invocations of the `kind` continuation of promise p, in order.
Calls(l, p, kind) == SelectSeq(l, LAMBDA e : e.p = p /\ e.kind = kind)

Invocation(p, kind, fn, arg) == [p |-> p, kind |-> kind, fn |-> fn, arg |-> arg]

\* ------------------------------------------------------------------- C1
\* C1: once a future p is Resolved and its success continuation f, which
\* returns a plain value, has run, the future returned by p.then(f) is
\* Resolved, and a success continuation registered on that future has been
\* invoked with f(v), the value p keeps.
C1_SuccessForwarded ==
  \A p \in Promises :
    (/\ heap[p].status = "resolved"
     /\ heap[p].owed = IncFn
     /\ heap[p].next \in held)
    => LET n == heap[p].next IN
         /\ heap[n].status = "resolved"
         /\ heap[n].owed # NoFn =>
              /\ Len(Calls(log, n, "owed")) = 1
              /\ Calls(log, n, "owed")[1].arg = heap[p].value

\* ------------------------------------------------------------------- C2
\* C2: a then(f) call on a future that is already Resolved with v, and has
\* no success continuation yet, invokes f exactly once, with v, inside the
\* call: the call appends that one invocation to the log.
C2_LateThenGetsValue ==
  \A p \in held : \A g \in Given(p) :
    (g.ok /\ heap[p].status = "resolved" /\ heap[p].owed = NoFn)
    => then(Now, p, IncFn, NoFn).log
         = Append(log, Invocation(p, "owed", IncFn, g.v))

\* ------------------------------------------------------------------- C3
\* C3: when the success continuation of p has returned the future q, the
\* future n returned by p.then is Resolved only if q is Resolved, it is then
\* Resolved with q's value and never with q itself, and a success
\* continuation registered on n is invoked once, with q's value, whether it
\* was registered before n was Resolved or is registered now.
C3_Flattened ==
  \A p \in Promises :
    (/\ heap[p].status = "resolved"
     /\ heap[p].value.k = "prom"
     /\ heap[p].next \in held)
    => LET n == heap[p].next
           q == heap[p].value.v
       IN \A g \in Given(q) :
            /\ heap[n].status = "resolved" => g.ok /\ heap[q].status = "resolved"
            /\ (g.ok /\ heap[q].status = "resolved") =>
                 /\ heap[n].status = "resolved"
                 /\ heap[n].owed = NoFn =>
                      then(Now, n, IncFn, NoFn).log
                        = Append(log, Invocation(n, "owed", IncFn, g.v))
                 /\ heap[n].owed # NoFn =>
                      /\ Len(Calls(log, n, "owed")) = 1
                      /\ Calls(log, n, "owed")[1].arg = g.v

\* ------------------------------------------------------------------- C4
\* The promises a rejection of p runs through: p, then its next, for as
\* long as the promise at hand has no failure continuation.
RECURSIVE FailChain(_)
FailChain(p) ==
  IF heap[p].onFail # NoFn \/ heap[p].next = 0
    THEN <<p>>
    ELSE <<p>> \o FailChain(heap[p].next)

Range(sq) == {sq[i] : i \in 1..Len(sq)}

\* The case of C4: the Deferred of a is held, a is Waiting with no failure
\* continuation and with a next, and the chain ends in a handler of the
\* calling code or in no handler at all.
C4_Case(a) ==
  /\ a \in deferreds
  /\ heap[a].status = "waiting"
  /\ heap[a].onFail = NoFn
  /\ heap[a].next # 0
  /\ heap[FailChain(a)[Len(FailChain(a))]].onFail \in {NoFn, HFn}

\* C4: rejecting a with e raises nothing, marks a and every following
\* future up to the first one with a failure continuation Rejected, invokes
\* that continuation exactly once, with e, and invokes nothing else; what
\* lies beyond it is left alone.
C4_FailurePropagates ==
  \A a \in Promises : C4_Case(a) => \A e \in Payloads(a) :
    LET r == reject(Now, a, e)
        chain == FailChain(a)
        c == chain[Len(chain)]
    IN /\ r.err = NoErr
       /\ Len(r.h) = Len(heap)
       /\ \A i \in Range(chain) : r.h[i].status = "rejected"
       /\ \A i \in Range(chain) \ {c} : r.h[i] = [heap[i] EXCEPT !.status = "rejected"]
       /\ \A i \in Promises \ Range(chain) : r.h[i] = heap[i]
       /\ r.log = IF heap[c].onFail = HFn
                    THEN Append(log, Invocation(c, "onFail", HFn, e))
                    ELSE log

\* A rejection has run from a through two futures to a handler.
C4_Witness ==
  \E a \in deferreds : \E g \in Given(a) :
    /\ ~g.ok
    /\ heap[a].onFail = NoFn /\ heap[a].next # 0
    /\ LET n1 == heap[a].next IN
         /\ heap[n1].onFail = NoFn /\ heap[n1].next # 0
         /\ heap[n1].status = "rejected"
         /\ heap[heap[n1].next].onFail = HFn
         /\ log = <<Invocation(heap[n1].next, "onFail", HFn, g.v)>>

\* ------------------------------------------------------------------- C5
\* The registrations of C5 on the promise d of a fresh Deferred:
\*   1  d.promise.then(s)            2  d.promise.catch(h)
\*   3  d.promise.then(s).catch(h2)  4  d.promise.catch(h), then 3
Chained(st, d) ==
  LET s1 == then(st, d, IncFn, NoFn) IN
  IF s1.err # NoErr THEN s1 ELSE catch(s1, s1.ret.v, HFn)

Registrations(st, d, k) ==
  CASE k = 1 -> then(st, d, IncFn, NoFn)
    [] k = 2 -> catch(st, d, HFn)
    [] k = 3 -> Chained(st, d)
    [] k = 4 -> LET s1 == catch(st, d, HFn) IN
                IF s1.err # NoErr THEN s1 ELSE Chained(s1, d)

Settlement(st, d, x, ok) == IF ok THEN resolve(st, d, x) ELSE reject(st, d, x)

\* What C5 compares: the continuations invoked, in order and with their
\* arguments, the Error raised, and the status of every future.
Observed(st) ==
  [log |-> st.log, err |-> st.err,
   status |-> [i \in 1..Len(st.h) |-> st.h[i].status]]

Fresh(d) == d \in deferreds /\ heap[d] = Promise(Undef, "waiting")

\* C5: on a fresh Deferred, settling first and registering afterwards is
\* observed as registering first and settling immediately afterwards.
C5_LateRegistrationCommutes ==
  \A d \in Promises : Fresh(d) =>
    \A x \in Payloads(d), k \in 1..4, ok \in BOOLEAN :
      Observed(Registrations(Settlement(Now, d, x, ok), d, k))
        = Observed(Settlement(Registrations(Now, d, k), d, x, ok))

\* ------------------------------------------------------------------- C6
\* C6: once the node-style function has called back with (err, data), the
\* promise the promisified function returned is Rejected if err is truthy
\* and Resolved otherwise, its continuations were invoked only with what the
\* callback handed over (err, respectively data), and the continuation of
\* the matching kind that the caller registered has been invoked once,
\* whether the callback fired before or after the registration.
C6_AdapterDelivers ==
  \A p \in adapted : \A g \in Given(p) :
    /\ heap[p].status = IF g.ok THEN "resolved" ELSE "rejected"
    /\ \A i \in 1..Len(log) :
         log[i].p = p =>
           /\ log[i].arg = g.v
           /\ log[i].kind = IF g.ok THEN "owed" ELSE "onFail"
    /\ (g.ok /\ heap[p].owed # NoFn) => Len(Calls(log, p, "owed")) = 1
    /\ (~g.ok /\ heap[p].onFail # NoFn) => Len(Calls(log, p, "onFail")) = 1

\* ------------------------------------------------------------------- C7
\* C7: on a future on which a then call has succeeded (the calling code
\* holds the future it returned), every then call raises "Tried to then a
\* promise twice." and changes neither the heap nor the log, whatever the
\* status of the future.
C7_SecondThenRaises ==
  \A p \in held : heap[p].next \in held =>
    \A s \in SuccessFns(p), f \in {NoFn, HFn} :
      LET r == then(Now, p, s, f) IN
        /\ r.err = ThenTwice
        /\ r.h = heap
        /\ r.log = log

\* Two futures with a successful then behind them, one Resolved and one
\* Rejected.
C7_Witness ==
  \E p \in held, q \in held :
    /\ heap[p].next \in held /\ heap[p].status = "resolved"
    /\ heap[q].next \in held /\ heap[q].status = "rejected"

\* ------------------------------------------------------------------- C8
\* C8: on a future that has a failure continuation, every catch call
\* raises "Tried to catch a promise twice." and changes neither the heap
\* nor the log, whatever the status of the future.
C8_SecondCatchRaises ==
  \A p \in held : heap[p].onFail # NoFn =>
    LET r == catch(Now, p, HFn) IN
      /\ r.err = CatchTwice
      /\ r.h = heap
      /\ r.log = log

\* Two futures with a handler of the calling code, one still Waiting and
\* one Rejected.
C8_Witness ==
  \E p \in held, q \in held :
    /\ heap[p].onFail = HFn /\ heap[p].status = "waiting"
    /\ heap[q].onFail = HFn /\ heap[q].status = "rejected"

\* ------------------------------------------------------------------- C9
\* C9: on a Deferred whose future has left Waiting, resolve raises "Tried
\* to fulfill a promise twice." and reject raises "Tried to abandon a
\* promise twice."; neither changes the heap (status and value included)
\* nor invokes a continuation.
C9_SettledDeferredRaises ==
  \A p \in deferreds : heap[p].status # "waiting" =>
    \A x \in Payloads(p) :
      LET a == resolve(Now, p, x)
          b == reject(Now, p, x)
      IN /\ a.err = FulfillTwice /\ a.h = heap /\ a.log = log
         /\ b.err = AbandonTwice /\ b.h = heap /\ b.log = log

\* Two Deferreds the calling code has settled, one each way.
C9_Witness ==
  \E p \in deferreds, q \in deferreds :
    /\ heap[p].status = "resolved"
    /\ heap[q].status = "rejected"

\* ------------------------------------------------------------------ C10
\* C10: on a future made by rejected(e), the first catch(h) invokes h once,
\* with e, inside the call; from then on the log holds that one invocation
\* of the future's failure continuation and no other.
C10_RejectedCatchOnce ==
  \A p \in held : \A g \in Given(p) :
    (~g.ok /\ g.via = "factory") =>
      /\ heap[p].onFail = NoFn =>
           LET r == catch(Now, p, HFn) IN
             /\ r.err = NoErr
             /\ r.log = Append(log, Invocation(p, "onFail", HFn, g.v))
      /\ heap[p].onFail = HFn =>
           Calls(log, p, "onFail") = <<Invocation(p, "onFail", HFn, g.v)>>
      /\ Len(Calls(log, p, "onFail")) <= 1

\* rejected(e).catch(h) has run, and so have later calls on that future
\* and on another one.
C10_Witness ==
  \E p \in held : \E g \in Given(p) :
    /\ ~g.ok /\ g.via = "factory"
    /\ heap[p].onFail = HFn
    /\ heap[p].owed # NoFn
    /\ Len(log) >= 2
    /\ Calls(log, p, "onFail") = <<Invocation(p, "onFail", HFn, g.v)>>

\* ------------------------------------------------------------------ C11
\* The promises reachable from p through next, p first.
RECURSIVE NextChain(_)
NextChain(p) ==
  IF heap[p].next = 0 THEN <<p>> ELSE <<p>> \o NextChain(heap[p].next)

\* The case of C11: the Deferred of a is held, a is Waiting, and neither a
\* nor a future reachable from it through next has a failure continuation.
C11_Case(a) ==
  /\ a \in deferreds
  /\ heap[a].status = "waiting"
  /\ \A i \in Range(NextChain(a)) : heap[i].onFail = NoFn

\* C11: rejecting a future whose chain, of any length, holds no failure
\* continuation raises nothing, leaves every future of the chain Rejected
\* and invokes no continuation.
C11_DropNotCrash ==
  \A a \in Promises : C11_Case(a) => \A e \in Payloads(a) :
    LET r == reject(Now, a, e) IN
      /\ r.err = NoErr
      /\ \A i \in Range(NextChain(a)) : r.h[i].status = "rejected"
      /\ r.log = log

\* A rejection has been dropped at the end of a chain of three futures, and
\* one at a future with no chain at all.
C11_Witness ==
  \E a \in deferreds, b \in deferreds :
    /\ Len(NextChain(a)) = 3
    /\ \A i \in Range(NextChain(a)) :
         heap[i].status = "rejected" /\ heap[i].onFail = NoFn
    /\ heap[b].next = 0 /\ heap[b].onFail = NoFn /\ heap[b].status = "rejected"
    /\ log = <<>>

\* ------------------------------------------------------------------ C12
\* C12: no public call takes a Resolved future to another status, nor a
\* Rejected one; the forced re-entry of late registration included.
C12_StatusMonotonic ==
  [][\A p \in Promises :
       /\ heap[p].status = "resolved" => heap'[p].status = "resolved"
       /\ heap[p].status = "rejected" => heap'[p].status = "rejected"]_vars

\* Late registration has re-entered fulfill on a Resolved future and
\* abandon on a Rejected one, and a then was registered on the Rejected one.
C12_Witness ==
  \E p \in held, q \in held :
    /\ heap[p].status = "resolved" /\ Len(Calls(log, p, "owed")) = 1
    /\ \E g \in Given(p) : g.via = "factory"
    /\ heap[q].status = "rejected" /\ Len(Calls(log, q, "onFail")) = 1
    /\ \E g \in Given(q) : g.via = "factory"
    /\ heap[q].owed # NoFn

\* ------------------------------------------------------------------ C13
\* The machine states at the end of every public call that can be made in
\* the current state, and the current state itself.
AfterCalls ==
  {Now}
  \cup UNION {{then(Now, p, s, f) : s \in SuccessFns(p), f \in {NoFn, HFn}} : p \in held}
  \cup {catch(Now, p, HFn) : p \in held}
  \cup UNION {{resolve(Now, p, x) : x \in Payloads(p)} : p \in deferreds}
  \cup UNION {{reject(Now, p, x) : x \in Payloads(p)} : p \in deferreds}

\* The `kind` continuation fn of promise p has been invoked in st: a
\* function of the calling code is in the log; the bound resolve / reject
\* of the Deferred of t has taken t out of Waiting (or found it so).
Invoked(st, p, kind, fn) ==
  IF fn.k \in {"res", "rej"}
    THEN st.h[fn.t].status # "waiting"
    ELSE \E i \in 1..Len(st.log) :
           st.log[i].p = p /\ st.log[i].kind = kind /\ st.log[i].fn = fn

AllFired(st) ==
  \A p \in 1..Len(st.h) :
    /\ (st.h[p].status = "resolved" /\ st.h[p].owed # NoFn)
         => Invoked(st, p, "owed", st.h[p].owed)
    /\ (st.h[p].status = "rejected" /\ st.h[p].onFail # NoFn)
         => Invoked(st, p, "onFail", st.h[p].onFail)

\* C13: at the end of every public call, every Resolved future with a
\* success continuation has had it invoked, and every Rejected future with
\* a failure continuation has had it invoked.
C13_FiredSynchronously == \A st \in AfterCalls : AllFired(st)

\* A continuation was invoked by the resolve call that found it registered,
\* and a handler by the catch call that found the future Rejected.
C13_Witness ==
  \E p \in deferreds, q \in held :
    /\ heap[p].status = "resolved" /\ heap[p].owed = IncFn
    /\ \E g \in Given(p) : Calls(log, p, "owed") = <<Invocation(p, "owed", IncFn, g.v)>>
    /\ heap[q].status = "rejected" /\ heap[q].onFail = HFn
    /\ \E g \in Given(q) : g.via = "factory"
    /\ Len(Calls(log, q, "onFail")) = 1

\* ------------------------------------------------------------------ C14
\* C14: whatever the payload, the Resolved and Rejected tags themselves
\* included, resolved(v) is and stays Resolved, its then invokes the success
\* continuation with v and its failure continuation is never invoked;
\* rejected(v) is and stays Rejected, its catch invokes the failure
\* continuation with v and its success continuation is never invoked.
C14_StatusIgnoresPayload ==
  \A st \in AfterCalls : \A g \in given :
    g.via = "factory" =>
      LET p == g.p
          mine == IF g.ok THEN "owed" ELSE "onFail"
          fn == IF g.ok THEN st.h[p].owed ELSE st.h[p].onFail
      IN /\ st.h[p].status = IF g.ok THEN "resolved" ELSE "rejected"
         /\ \A i \in 1..Len(st.log) : st.log[i].p = p => st.log[i].kind = mine
         /\ fn.k \in {"inc", "ret", "h"} =>
              Calls(st.log, p, mine) = <<Invocation(p, mine, fn, g.v)>>

\* resolved(rejected) has had then and catch called on it, and so has
\* rejected(resolved).
C14_Witness ==
  \E a \in given, b \in given :
    /\ a.via = "factory" /\ a.ok /\ a.v = TagV(2)
    /\ heap[a.p].owed = IncFn /\ heap[a.p].onFail = HFn
    /\ b.via = "factory" /\ ~b.ok /\ b.v = TagV(1)
    /\ heap[b.p].owed = IncFn /\ heap[b.p].onFail = HFn
    /\ Len(log) = 2

\* ------------------------------------------------------------------ C15
\* C15: when the success continuation of p has returned the future q and q
\* is Rejected with e, the future n returned by p.then is Rejected and never
\* Resolved, and e reaches the first failure continuation on n or downstream
\* of n exactly once: the one registered there has been invoked once with e,
\* and where none is registered yet, registering one now invokes it with e.
C15_FlattenedFailure ==
  \A p \in Promises :
    (/\ heap[p].status = "resolved"
     /\ heap[p].value.k = "prom"
     /\ heap[p].next \in held)
    => LET n == heap[p].next
           q == heap[p].value.v
           c == FailChain(n)
           end == c[Len(c)]
       IN \A g \in Given(q) :
            (~g.ok /\ heap[q].status = "rejected") =>
              /\ heap[n].status = "rejected"
              /\ heap[end].onFail = HFn =>
                   Calls(log, end, "onFail") = <<Invocation(end, "onFail", HFn, g.v)>>
              /\ \A i \in Range(c) \cap held :
                   heap[i].onFail = NoFn =>
                     catch(Now, i, HFn).log
                       = Append(log, Invocation(i, "onFail", HFn, g.v))

\* ------------------------------------------------------------------ C16
\* The case of C16: the Deferred of p is held, p is Waiting and has a next.
C16_Case(p) ==
  /\ p \in deferreds
  /\ heap[p].status = "waiting"
  /\ heap[p].next # 0

\* The machine states in which p has a failure continuation of the calling
\* code: the current one when catch(h) has been called, and otherwise the
\* ones after p.catch(f), f returning nothing or returning a promise.
C16_Handled(p) ==
  IF heap[p].onFail = HFn THEN {Now}
  ELSE IF heap[p].onFail = NoFn
    THEN {catch(Now, p, f) : f \in {HFn} \cup {RetFn(q) : q \in held}}
  ELSE {}

\* C16: rejecting a future that has a failure continuation h and a next n
\* invokes h once with the error and nothing else: n stays Waiting and no
\* other promise changes, whatever h returns.
C16_HandlerStopsPropagation ==
  \A p \in Promises :
    C16_Case(p) =>
      \A st \in C16_Handled(p) : \A e \in Payloads(p) :
        LET r == reject(st, p, e) IN
          /\ r.err = NoErr
          /\ r.log = Append(st.log, Invocation(p, "onFail", st.h[p].onFail, e))
          /\ r.h[heap[p].next].status = "waiting"
          /\ r.h = [st.h EXCEPT ![p].status = "rejected", ![p].value = e]

\* A rejection has been caught by the handler of a promise whose next has
\* continuations of its own; only that handler has run.
C16_Witness ==
  \E p \in deferreds :
    /\ heap[p].status = "rejected"
    /\ heap[p].onFail = HFn
    /\ heap[p].next # 0
    /\ heap[heap[p].next].status = "waiting"
    /\ heap[heap[p].next].owed = IncFn
    /\ heap[heap[p].next].onFail = HFn
    /\ \E e \in Payloads(p) : log = <<Invocation(p, "onFail", HFn, e)>>

\* ------------------------------------------------------------------ C17
\* The promise whose then returned n in heap h, 0 when n is a root.
ParentIn(h, n) ==
  IF \E p \in 1..Len(h) : h[p].next = n
    THEN CHOOSE p \in 1..Len(h) : h[p].next = n
    ELSE 0

\* Every invocation in the log of st of a continuation of a promise n that
\* has a parent p comes in order: a success continuation after an invocation
\* of p's success continuation, p being Resolved; a failure continuation
\* with p no longer Waiting.
Linear(st) ==
  \A i \in 1..Len(st.log) :
    LET n == st.log[i].p
        p == ParentIn(st.h, n)
    IN p # 0 =>
         /\ st.log[i].kind = "owed" =>
              /\ st.h[p].status = "resolved"
              /\ \E j \in 1..(i - 1) : st.log[j].p = p /\ st.log[j].kind = "owed"
         /\ st.log[i].kind = "onFail" => st.h[p].status # "waiting"

\* C17: along a chain, the success continuation of a promise is never
\* invoked before that of its parent, and its failure continuation never
\* while its parent is Waiting, in every reachable state and after every
\* call made from one.
C17_LinearOrder == \A st \in AfterCalls : Linear(st)

\* p0.then(f0) returned n, n.then(f1) was called, f0 returns a Resolved
\* promise: resolving p0 runs f0 on p0 and then f1 on n.
C17_Witness ==
  \E p \in deferreds : \E x \in Payloads(p) :
    LET r == resolve(Now, p, x)
        n == heap[p].next
    IN /\ heap[p].status = "waiting"
       /\ n # 0
       /\ heap[p].owed.k = "ret"
       /\ heap[n].owed = IncFn
       /\ r.err = NoErr
       /\ r \in AfterCalls
       /\ Len(r.log) = 2
       /\ r.log[1] = Invocation(p, "owed", heap[p].owed, x)
       /\ r.log[2].p = n /\ r.log[2].kind = "owed" /\ r.log[2].fn = IncFn

\* ------------------------------------------------------------------ C18
\* C18: Deferred.resolve(data) on a Waiting future with no success
\* continuation raises nothing, sets the status of that future to Resolved
\* and changes nothing else: not its value, its failure continuation or its
\* next, not any other future, and no continuation is invoked.
C18_ResolveUnsubscribed ==
  \A p \in deferreds :
    (heap[p].status = "waiting" /\ heap[p].owed = NoFn) =>
      \A x \in Payloads(p) :
        LET r == resolve(Now, p, x) IN
          /\ r.err = NoErr
          /\ r.h = [heap EXCEPT ![p].status = "resolved"]
          /\ r.log = log

\* A future with a failure continuation and no success continuation has
\* been resolved through its Deferred, next to a chain that is still
\* Waiting.
C18_Witness ==
  \E p \in deferreds, q \in deferreds :
    /\ [p |-> p, ok |-> TRUE, v |-> Num(10 * p), via |-> "deferred"] \in given
    /\ heap[p] = [value |-> Undef, status |-> "resolved", owed |-> NoFn,
                  onFail |-> HFn, next |-> 0]
    /\ heap[q].status = "waiting"
    /\ heap[q].owed = IncFn
    /\ log = <<>>

\* ------------------------------------------------------------------ C19
\* In st, each continuation of promise p has been invoked at most once, and
\* not both of them.
NotifiedOnce(st, p) ==
  /\ Len(Calls(st.log, p, "owed")) <= 1
  /\ Len(Calls(st.log, p, "onFail")) <= 1
  /\ Len(Calls(st.log, p, "owed")) + Len(Calls(st.log, p, "onFail")) <= 1

\* C19: over every sequence of then, catch, resolve and reject calls, each
\* registered continuation is invoked at most once, and the success and the
\* failure continuation of one future are never both invoked.
C19_SingleNotification ==
  \A st \in AfterCalls : \A p \in 1..Len(st.h) : NotifiedOnce(st, p)

\* Two futures with both continuations registered, one Resolved and one
\* Rejected, each notified through one continuation only.
C19_Witness ==
  \E p \in deferreds, q \in deferreds :
    /\ heap[p].status = "resolved" /\ heap[q].status = "rejected"
    /\ heap[p].owed = IncFn /\ heap[p].onFail = HFn
    /\ heap[q].owed = IncFn /\ heap[q].onFail = HFn
    /\ Len(Calls(log, p, "owed")) = 1 /\ Len(Calls(log, p, "onFail")) = 0
    /\ Len(Calls(log, q, "onFail")) = 1 /\ Len(Calls(log, q, "owed")) = 0

\* ------------------------------------------------------------------ C20
\* C20: every public call that raises a usage error leaves every future as
\* it was (status, value, continuations, next; no future is created) and
\* invokes no continuation.
C20_UsageErrorsAtomic ==
  \A st \in AfterCalls :
    st.err # NoErr => st.h = heap /\ st.log = log

====
